---- MODULE Spec2Model ----
(***************************************************************************)
(* Model of doge-scrape.py: the batch pipeline                             *)
(*   fetch_usaspending_data -> pd.concat -> fetch_doge_contracts           *)
(*   -> merge_data -> to_csv                                               *)
(* sequenced by main().  Tables are pandas DataFrames: a column set, a     *)
(* row index and a sequence of rows.  Every row carries the four columns   *)
(* the pipeline can see; a column a table does not have holds Null.        *)
(***************************************************************************)
EXTENDS Integers, Sequences, FiniteSets, TLC

\* ------------------------------------------------------------------ bounds
MaxMembers == 2     \* members of the downloaded zip archive
MaxFileRows == 1    \* rows of one CSV member of the archive
MaxFeedRows == 1    \* rows of the JSON feed
MaxLeftRows == 3    \* rows of merge_data's first argument (SpecMerge)
MaxRightRows == 2   \* rows of merge_data's second argument (SpecMerge)

\* ------------------------------------------------------------ data model
\* NaN / None, the missing value of a cell.
Null == "null"

usaspending_merge_key == "award_id_piid"
doge_merge_key == "piid"
output_filename == "merged_award_data_by_piid.csv"

\* pd.DataFrame(): no columns, no rows.
EmptyDataFrame == [cols |-> {}, index |-> <<>>, rows |-> <<>>]

\* A freshly built frame (pd.read_csv, pd.DataFrame(data), pd.merge): the
\* default RangeIndex 0..n-1.
RangeIndex(n) == IF n = 0 THEN <<>> ELSE [i \in 1..n |-> i - 1]

DataFrame(cols, rows) == [cols |-> cols, index |-> RangeIndex(Len(rows)), rows |-> rows]

\* DataFrame.empty: true when any axis has length 0.
empty(df) == df.cols = {} \/ Len(df.rows) = 0

\* A row of an archive CSV / of the feed, and the all-missing row.
LeftRow(k, a) == [award_id_piid |-> k, amount |-> a, piid |-> Null, savings |-> Null]

RightRow(k, s) == [award_id_piid |-> Null, amount |-> Null, piid |-> k, savings |-> s]

NullRow == [award_id_piid |-> Null, amount |-> Null, piid |-> Null, savings |-> Null]

\* All sequences over S of length at most n.
SeqsUpTo(S, n) == UNION {[1..m -> S] : m \in 0..n}

\* ---------------------------------------------------------------- pd.merge
\* Key values in the order an outer merge emits them: sorted
\* lexicographically, missing keys last.
KeyOrder == <<"P1", "P2", "P3", Null>>

RowsWithKey(rows, col, k) == SelectSeq(rows, LAMBDA r : r[col] = k)

\* One output row: the left row's columns beside the right row's.
Combine(l, r) == [award_id_piid |-> l.award_id_piid, amount |-> l.amount, piid |-> r.piid, savings |-> r.savings]

\* Every pairing of the left rows with the right rows, left-major.
RECURSIVE Cross(_, _)
Cross(ls, rs) == IF ls = <<>> THEN <<>> ELSE [j \in 1..Len(rs) |-> Combine(Head(ls), rs[j])] \o Cross(Tail(ls), rs)

\* KeyGroup under how='left': the rows of the right table that match no left
\* row are dropped.
KeyGroupLeftJoin(df1, df2, left_on, right_on, k) ==
    LET ls == RowsWithKey(df1.rows, left_on, k)
        rs == RowsWithKey(df2.rows, right_on, k)
    IN  IF ls # <<>> /\ rs # <<>> THEN Cross(ls, rs)
        ELSE IF ls # <<>> THEN Cross(ls, <<NullRow>>)
        ELSE <<>>

\* The output rows of one key value.  pandas matches on the key VALUE, and a
\* missing key is a value like any other: rows whose key is missing on both
\* sides are paired with each other.
KeyGroup(df1, df2, left_on, right_on, k) ==
    LET ls == RowsWithKey(df1.rows, left_on, k)
        rs == RowsWithKey(df2.rows, right_on, k)
    IN  IF ls # <<>> /\ rs # <<>> THEN Cross(ls, rs)
        ELSE IF ls # <<>> THEN Cross(ls, <<NullRow>>)
        ELSE Cross(<<NullRow>>, rs)

RECURSIVE MergeRows(_, _, _, _, _)
MergeRows(df1, df2, left_on, right_on, keys) ==
    IF keys = <<>> THEN <<>>
    ELSE KeyGroup(df1, df2, left_on, right_on, Head(keys))
         \o MergeRows(df1, df2, left_on, right_on, Tail(keys))

\* pd.merge(df1, df2, left_on=, right_on=, how='outer')
pd_merge(df1, df2, left_on, right_on) ==
    DataFrame(df1.cols \cup df2.cols, MergeRows(df1, df2, left_on, right_on, KeyOrder))

\* merge_data without the check of the second table's key column.
merge_data_no_right_check(df1, df2, left_on, right_on) ==
    IF left_on \notin df1.cols
    THEN [df |-> EmptyDataFrame, joined |-> FALSE, msg |-> <<"left key not found">>]
    ELSE [df |-> pd_merge(df1, df2, left_on, right_on), joined |-> TRUE, msg |-> <<>>]

\* merge_data: the two column checks, then the outer merge.  `joined` records
\* whether pd.merge was called, `msg` the diagnostic printed.
merge_data(df1, df2, left_on, right_on) ==
    IF left_on \notin df1.cols
    THEN [df |-> EmptyDataFrame, joined |-> FALSE, msg |-> <<"left key not found">>]
    ELSE IF right_on \notin df2.cols
    THEN [df |-> EmptyDataFrame, joined |-> FALSE, msg |-> <<"right key not found">>]
    ELSE [df |-> pd_merge(df1, df2, left_on, right_on), joined |-> TRUE, msg |-> <<>>]

\* ---------------------------------------------------------------- pd.concat
RECURSIVE ConcatRows(_)
ConcatRows(dfs) == IF dfs = <<>> THEN <<>> ELSE Head(dfs).rows \o ConcatRows(Tail(dfs))

RECURSIVE ConcatIndex(_)
ConcatIndex(dfs) == IF dfs = <<>> THEN <<>> ELSE Head(dfs).index \o ConcatIndex(Tail(dfs))

\* pd.concat with ignore_index left at its default: every frame keeps its
\* own row labels.
pd_concat_keep_index(dfs, ignore_index) ==
    [cols |-> UNION {dfs[i].cols : i \in 1..Len(dfs)},
     index |-> ConcatIndex(dfs),
     rows |-> ConcatRows(dfs)]

\* pd.concat(dfs, ignore_index=...): the rows of every frame in list order
\* under the union of the columns (a column a frame lacks is filled with
\* Null, which the rows already hold); the index is renumbered when
\* ignore_index is set and is the frames' own labels otherwise.
pd_concat(dfs, ignore_index) ==
    [cols |-> UNION {dfs[i].cols : i \in 1..Len(dfs)},
     index |-> IF ignore_index THEN RangeIndex(Len(ConcatRows(dfs))) ELSE ConcatIndex(dfs),
     rows |-> ConcatRows(dfs)]

\* --------------------------------------------------------------- exceptions
NoException == "none"

\* The base class of an exception class.
BaseClass(c) ==
    CASE c \in {"ConnectionError", "HTTPError"} -> "RequestException"
      [] OTHER -> "Exception"

\* isinstance(e, c) for an exception of class e.
IsInstance(e, c) == e = c \/ BaseClass(e) = c \/ c = "Exception"

\* Whether one of a try statement's except clauses catches e.
Caught(handlers, e) == \E c \in handlers : IsInstance(e, c)

\* What leaves a try statement whose body raised e (or nothing).
Escapes(handlers, e) == IF e = NoException \/ Caught(handlers, e) THEN NoException ELSE e

\* --------------------------------------------------- fetch_usaspending_data
\* The inner try of the member loop: pd.read_csv and the append.
InnerHandlers == {"Exception"}

\* The except clauses of the function's outer try.
ArchiveHandlers == {"RequestException", "BadZipFile", "Exception"}

\* ReadMember without the inner try: a parse error leaves the loop.
ReadMemberNoInnerTry(member, dataframes) ==
    IF ~member.is_csv THEN [raised |-> NoException, dataframes |-> dataframes]
    ELSE IF member.parse_ok
    THEN [raised |-> NoException, dataframes |-> Append(dataframes, member.df)]
    ELSE [raised |-> "ParserError", dataframes |-> dataframes]

\* One iteration of the loop over z.namelist(): a member whose name does not
\* end in '.csv' is skipped; a '.csv' member is parsed and appended, and a
\* parse error is caught by the inner try.
ReadMember(member, dataframes) ==
    IF ~member.is_csv THEN [raised |-> NoException, dataframes |-> dataframes]
    ELSE IF member.parse_ok
    THEN [raised |-> NoException, dataframes |-> Append(dataframes, member.df)]
    ELSE [raised |-> Escapes(InnerHandlers, "ParserError"), dataframes |-> dataframes]

\* The loop: an exception that leaves an iteration ends the loop, with the
\* list as it then is.
RECURSIVE ReadMembers(_, _)
ReadMembers(members, dataframes) ==
    IF members = <<>> THEN [raised |-> NoException, dataframes |-> dataframes]
    ELSE LET r == ReadMember(Head(members), dataframes)
         IN  IF r.raised # NoException THEN r ELSE ReadMembers(Tail(members), r.dataframes)

\* The body of the outer try: the download, raise_for_status, ZipFile(), the loop.
ArchiveBody(response) ==
    IF response.download # "ok" THEN [raised |-> response.download, dataframes |-> <<>>]
    ELSE IF ~response.zip_ok THEN [raised |-> "BadZipFile", dataframes |-> <<>>]
    ELSE ReadMembers(response.members, <<>>)

\* fetch_usaspending_data: `raised` is what escapes to the caller, `value`
\* the list returned.
fetch_usaspending_data(response) ==
    LET r == ArchiveBody(response)
    IN  [raised |-> Escapes(ArchiveHandlers, r.raised), value |-> r.dataframes]

\* ----------------------------------------------------- fetch_doge_contracts
\* fetch_doge_contracts without its catch-all clause.
FeedHandlersRequestOnly == {"RequestException"}

\* The except clauses of fetch_doge_contracts.
FeedHandlers == {"RequestException", "Exception"}

\* The body of the try: the request, raise_for_status, response.json(),
\* pd.DataFrame(data).
FeedBody(response) ==
    IF response.request # "ok" THEN [raised |-> response.request, df |-> EmptyDataFrame]
    ELSE IF ~response.json_ok THEN [raised |-> "JSONDecodeError", df |-> EmptyDataFrame]
    ELSE IF ~response.tabular THEN [raised |-> "ValueError", df |-> EmptyDataFrame]
    ELSE [raised |-> NoException, df |-> response.df]

\* fetch_doge_contracts: the parsed table, or pd.DataFrame() once an
\* exception was caught.
fetch_doge_contracts(response) ==
    LET r == FeedBody(response)
    IN  [raised |-> Escapes(FeedHandlers, r.raised),
         value |-> IF r.raised = NoException THEN r.df ELSE EmptyDataFrame]

\* ------------------------------------------------------------------- inputs
FileRows == {LeftRow("P1", "100"), LeftRow("P2", "200"), LeftRow(Null, "100")}

FileRowsNoKey == {LeftRow(Null, "200")}

\* What pd.read_csv can return for a member: a table with or without the
\* award_id_piid column, header-only files included.
FileTables ==
    {DataFrame({"award_id_piid", "amount"}, rows) : rows \in SeqsUpTo(FileRows, MaxFileRows)}
    \cup {DataFrame({"amount"}, rows) : rows \in SeqsUpTo(FileRowsNoKey, MaxFileRows)}

Members ==
    {[is_csv |-> FALSE, parse_ok |-> FALSE, df |-> EmptyDataFrame],
     [is_csv |-> TRUE, parse_ok |-> FALSE, df |-> EmptyDataFrame]}
    \cup {[is_csv |-> TRUE, parse_ok |-> TRUE, df |-> t] : t \in FileTables}

\* What the archive URL can answer.
ArchiveResponses ==
    {[download |-> d, zip_ok |-> FALSE, members |-> <<>>] : d \in {"ConnectionError", "HTTPError", "ok"}}
    \cup {[download |-> "ok", zip_ok |-> TRUE, members |-> ms] : ms \in SeqsUpTo(Members, MaxMembers)}

FeedRows == {RightRow("P1", "50"), RightRow("P3", "10"), RightRow(Null, "50")}

FeedRowsNoKey == {RightRow(Null, "50")}

FeedTables ==
    {EmptyDataFrame}
    \cup {DataFrame({"piid", "savings"}, rows) : rows \in SeqsUpTo(FeedRows, MaxFeedRows) \ {<<>>}}
    \cup {DataFrame({"savings"}, rows) : rows \in SeqsUpTo(FeedRowsNoKey, MaxFeedRows) \ {<<>>}}

\* What the feed URL can answer.
FeedResponses ==
    {[request |-> q, json_ok |-> FALSE, tabular |-> FALSE, df |-> EmptyDataFrame] : q \in {"ConnectionError", "HTTPError", "ok"}}
    \cup {[request |-> "ok", json_ok |-> TRUE, tabular |-> FALSE, df |-> EmptyDataFrame]}
    \cup {[request |-> "ok", json_ok |-> TRUE, tabular |-> TRUE, df |-> t] : t \in FeedTables}

NoResponse == [none |-> TRUE]

\* The arguments merge_data is applied to in SpecMerge.
LeftRows == FileRows \cup {LeftRow("P1", "200")}

LeftTables ==
    {DataFrame({"award_id_piid", "amount"}, rows) : rows \in SeqsUpTo(LeftRows, MaxLeftRows)}
    \cup {DataFrame({"amount"}, rows) : rows \in SeqsUpTo(FileRowsNoKey, MaxLeftRows)}

RightRows == FeedRows \cup {RightRow("P1", "10")}

RightTables ==
    {DataFrame({"piid", "savings"}, rows) : rows \in SeqsUpTo(RightRows, MaxRightRows)}
    \cup {DataFrame({"savings"}, rows) : rows \in SeqsUpTo(FeedRowsNoKey, MaxRightRows)}

\* -------------------------------------------------------------------- state
VARIABLES
    pc,                      \* main's position; the terminal positions are
                             \* DONE, FAIL, WARN, RETURNED and RAISED
    archive_response,        \* what the archive URL answered (fetch's local)
    feed_response,           \* what the feed URL answered (fetch's local)
    usaspending_dataframes,  \* main's list of parsed archive tables
    df_usaspending,          \* the concatenated archive table
    df_doge,                 \* the feed table
    merged_df,               \* merge_data's result
    files,                   \* the contents written to output_filename, oldest first
    console,                 \* the diagnostics printed, oldest first
    calls,                   \* how often each external call was made
    exception                \* the exception that left main, if any

vars == <<pc, archive_response, feed_response, usaspending_dataframes, df_usaspending, df_doge, merged_df, files, console, calls, exception>>

NoCalls == [archive_get |-> 0, pd_concat |-> 0, feed_get |-> 0, merge_data |-> 0, pd_merge |-> 0, to_csv |-> 0]

Init ==
    /\ pc = "FETCH_ARCHIVE"
    /\ archive_response = NoResponse
    /\ feed_response = NoResponse
    /\ usaspending_dataframes = <<>>
    /\ df_usaspending = EmptyDataFrame
    /\ df_doge = EmptyDataFrame
    /\ merged_df = EmptyDataFrame
    /\ files = <<>>
    /\ console = <<>>
    /\ calls = NoCalls
    /\ exception = NoException

\* main's checks between the stages.
\* line 104: `not usaspending_dataframes`
NothingLoaded(dataframes) == dataframes = <<>>

\* main without the check of line 116.
LoadFailedNever(df) == FALSE

\* line 116: `df_doge.empty`
LoadFailed(df) == empty(df)

\* line 124: the merge is empty although both inputs were loaded
MergeFailed(merged, df1, df2) == empty(merged) /\ (~empty(df1) /\ ~empty(df2))

\* line 126: `not merged_df.empty`
MergeSucceeded(merged) == ~empty(merged)

\* An exception nothing catches leaves main.
Raise(e) == pc' = "RAISED" /\ exception' = e

\* main, line 101: the call of fetch_usaspending_data, which issues the one
\* archive request.
FetchArchive ==
    /\ pc = "FETCH_ARCHIVE"
    /\ \E response \in ArchiveResponses :
         LET r == fetch_usaspending_data(response)
         IN  /\ archive_response' = response
             /\ calls' = [calls EXCEPT !.archive_get = @ + 1]
             /\ usaspending_dataframes' = r.value
             /\ IF r.raised # NoException THEN Raise(r.raised)
                ELSE pc' = "CONCAT" /\ UNCHANGED exception
    /\ UNCHANGED <<feed_response, df_usaspending, df_doge, merged_df, files, console>>

\* main, lines 104-110: the empty-list check, then pd.concat.  The response
\* object was local to the fetch and is gone.
Concat ==
    /\ pc = "CONCAT"
    /\ archive_response' = NoResponse
    /\ IF NothingLoaded(usaspending_dataframes)
       THEN /\ console' = Append(console, "no USAspending dataframes")
            /\ pc' = "FAIL"
            /\ UNCHANGED <<df_usaspending, calls>>
       ELSE /\ df_usaspending' = pd_concat(usaspending_dataframes, TRUE)
            /\ calls' = [calls EXCEPT !.pd_concat = @ + 1]
            /\ pc' = "FETCH_FEED"
            /\ UNCHANGED console
    /\ UNCHANGED <<feed_response, usaspending_dataframes, df_doge, merged_df, files, exception>>

\* main, lines 113-118: the call of fetch_doge_contracts, which issues the one
\* feed request, then the emptiness check.
FetchFeed ==
    /\ pc = "FETCH_FEED"
    /\ \E response \in FeedResponses :
         LET r == fetch_doge_contracts(response)
         IN  /\ feed_response' = response
             /\ calls' = [calls EXCEPT !.feed_get = @ + 1]
             /\ df_doge' = r.value
             /\ IF r.raised # NoException
                THEN Raise(r.raised) /\ UNCHANGED console
                ELSE IF LoadFailed(r.value)
                THEN /\ console' = Append(console, "failed to load DOGE data")
                     /\ pc' = "FAIL"
                     /\ UNCHANGED exception
                ELSE pc' = "MERGE" /\ UNCHANGED <<console, exception>>
    /\ UNCHANGED <<archive_response, usaspending_dataframes, df_usaspending, merged_df, files>>

\* main, line 121: the call of merge_data.  Nothing around pd.merge catches
\* what it raises (a ValueError for key columns of different dtypes, a
\* MemoryError for a result too large), in merge_data or in main.
Merge ==
    /\ pc = "MERGE"
    /\ feed_response' = NoResponse
    /\ \E merge_error \in {NoException, "ValueError"} :
         LET r == merge_data(df_usaspending, df_doge, usaspending_merge_key, doge_merge_key)
         IN  /\ calls' = [calls EXCEPT !.merge_data = @ + 1,
                                       !.pd_merge = IF r.joined THEN @ + 1 ELSE @]
             /\ console' = console \o r.msg
             /\ IF r.joined /\ merge_error # NoException
                THEN Raise(merge_error) /\ UNCHANGED merged_df
                ELSE merged_df' = r.df /\ pc' = "WRITE" /\ UNCHANGED exception
    /\ UNCHANGED <<archive_response, usaspending_dataframes, df_usaspending, df_doge, files>>

\* main, lines 124-130: the warning, the write, or neither.  to_csv is not
\* inside a try: an OSError it raises leaves main and no file is written.
Write ==
    /\ pc = "WRITE"
    /\ IF MergeFailed(merged_df, df_usaspending, df_doge)
       THEN /\ console' = Append(console, "merge resulted in an empty DataFrame")
            /\ pc' = "WARN"
            /\ UNCHANGED <<files, calls, exception>>
       ELSE IF MergeSucceeded(merged_df)
       THEN \E write_error \in {NoException, "OSError"} :
              /\ calls' = [calls EXCEPT !.to_csv = @ + 1]
              /\ IF write_error # NoException
                 THEN Raise(write_error) /\ UNCHANGED <<files, console>>
                 ELSE /\ files' = Append(files, [name |-> output_filename, cols |-> merged_df.cols, rows |-> merged_df.rows])
                      /\ console' = Append(console, "saved merged data")
                      /\ pc' = "DONE"
                      /\ UNCHANGED exception
       ELSE pc' = "RETURNED" /\ UNCHANGED <<files, console, calls, exception>>
    /\ UNCHANGED <<archive_response, feed_response, usaspending_dataframes, df_usaspending, df_doge, merged_df>>

Next == FetchArchive \/ Concat \/ FetchFeed \/ Merge \/ Write

\* One run of main.
Spec == Init /\ [][Next]_vars

\* merge_data applied to every pair of bounded tables: main entered at the
\* call of line 121.
InitMerge ==
    /\ pc = "MERGE"
    /\ archive_response = NoResponse
    /\ feed_response = NoResponse
    /\ usaspending_dataframes = <<>>
    /\ df_usaspending \in LeftTables
    /\ df_doge \in RightTables
    /\ merged_df = EmptyDataFrame
    /\ files = <<>>
    /\ console = <<>>
    /\ calls = NoCalls
    /\ exception = NoException

NextMerge == Merge

SpecMerge == InitMerge /\ [][NextMerge]_vars

\* =================================================================== claims
\* main has come to its end by returning.
Returned == pc \in {"DONE", "FAIL", "WARN", "RETURNED"}

\* One of main's two failure banners / its warning banner was printed.
FailBanner == \E n \in 1..Len(console) : console[n] \in {"no USAspending dataframes", "failed to load DOGE data"}

WarnBanner == \E n \in 1..Len(console) : console[n] = "merge resulted in an empty DataFrame"

SavedBanner == \E n \in 1..Len(console) : console[n] = "saved merged data"

\* C1: every run of main that returns has ended in exactly one of DONE (the
\* file written and the success message printed), FAIL (main's failure
\* message printed, no file) or WARN (main's warning printed, no file); no run
\* returns having neither written the file nor printed one of the two.  (Runs
\* that end with an exception are the subject of C4.)
C1_EveryRunEndsDoneFailOrWarn ==
    Returned =>
        /\ pc \in {"DONE", "FAIL", "WARN"}
        /\ pc = "DONE" => Len(files) = 1 /\ SavedBanner
        /\ pc = "FAIL" => files = <<>> /\ FailBanner
        /\ pc = "WARN" => files = <<>> /\ WarnBanner

\* ------------------------------------------------------------ merge_data
\* merge_data has returned the result of pd.merge.
Joined == pc = "WRITE" /\ calls.pd_merge = 1

KeyOf(df, col, i) == df.rows[i][col]

Count(df, col, k) == Cardinality({i \in 1..Len(df.rows) : KeyOf(df, col, i) = k})

Max(a, b) == IF a >= b THEN a ELSE b

\* Two keys are equal: the same value, and not missing.
EqualKeys(a, b) == a = b /\ a # Null

\* Some key of the left table equals a key of the right table.
SomeKeysEqual ==
    \E i \in 1..Len(df_usaspending.rows), j \in 1..Len(df_doge.rows) :
        EqualKeys(KeyOf(df_usaspending, usaspending_merge_key, i), KeyOf(df_doge, doge_merge_key, j))

\* Some key value of the left table, a missing key counted as a value, is a
\* key value of the right table.
SomeKeyMatches ==
    \E i \in 1..Len(df_usaspending.rows), j \in 1..Len(df_doge.rows) :
        KeyOf(df_usaspending, usaspending_merge_key, i) = KeyOf(df_doge, doge_merge_key, j)

\* Some key value, a missing key counted as a value, occurs in several rows
\* of the left table and in several rows of the right table.
DuplicatedOnBothSides ==
    \E i \in 1..Len(df_usaspending.rows) :
        LET k == KeyOf(df_usaspending, usaspending_merge_key, i)
        IN  Count(df_usaspending, usaspending_merge_key, k) >= 2 /\ Count(df_doge, doge_merge_key, k) >= 2

\* C2 as stated: the outer join of L and R has at least max(|L|,|R|) and at
\* most |L|+|R| rows, and |L|+|R| rows only when no key value of L is a key
\* value of R, duplicated key values included.
C2_RowCountWithinOuterJoinBound ==
    Joined =>
        LET n == Len(merged_df.rows)
            l == Len(df_usaspending.rows)
            r == Len(df_doge.rows)
        IN  /\ n >= Max(l, r)
            /\ n <= l + r
            /\ n = l + r => ~SomeKeysEqual

\* C2 as amended: the outer join has at least max(|L|,|R|) rows; unless some
\* key value (a missing key counted as a value) occurs in several rows of L
\* and in several rows of R, it has at most |L|+|R| rows, and |L|+|R| rows
\* only when no key value of L is a key value of R.
C2_RowCountBoundUnlessDuplicatedOnBothSides ==
    Joined =>
        LET n == Len(merged_df.rows)
            l == Len(df_usaspending.rows)
            r == Len(df_doge.rows)
        IN  /\ n >= Max(l, r)
            /\ ~DuplicatedOnBothSides => n <= l + r /\ (n = l + r => ~SomeKeyMatches)

\* A key value repeated on both sides: three rows and two rows give the six
\* rows of their cross product.
C2_Witness ==
    /\ Joined
    /\ DuplicatedOnBothSides
    /\ Len(df_usaspending.rows) = 3 /\ Len(df_doge.rows) = 2
    /\ Len(merged_df.rows) = 6

\* The left / right half of an output row, and whether the half is there
\* (amount and savings are never missing in an input row).
LeftHalf(row) == [award_id_piid |-> row.award_id_piid, amount |-> row.amount]

RightHalf(row) == [piid |-> row.piid, savings |-> row.savings]

HasLeft(row) == row.amount # Null

HasRight(row) == row.savings # Null

\* C3: a row whose key is missing is never paired with a row of the other
\* table: an output row holding a left row with a missing key holds no right
\* row, and an output row holding a right row with a missing key holds no
\* left row.
C3_NullKeysNeverPaired ==
    Joined =>
        \A n \in 1..Len(merged_df.rows) :
            LET row == merged_df.rows[n]
            IN  /\ HasLeft(row) /\ row.award_id_piid = Null => ~HasRight(row)
                /\ HasRight(row) /\ row.piid = Null => ~HasLeft(row)

\* The output rows that hold row i of the left / row j of the right table.
OutputOfLeft(i) == {n \in 1..Len(merged_df.rows) : LeftHalf(merged_df.rows[n]) = LeftHalf(df_usaspending.rows[i])}

OutputOfRight(j) == {n \in 1..Len(merged_df.rows) : RightHalf(merged_df.rows[n]) = RightHalf(df_doge.rows[j])}

ExampleLeft == DataFrame({"award_id_piid", "amount"}, <<LeftRow("P1", "100"), LeftRow("P2", "200")>>)

ExampleRight == DataFrame({"piid", "savings"}, <<RightRow("P1", "50"), RightRow("P3", "10")>>)

ExampleMerged ==
    <<[award_id_piid |-> "P1", amount |-> "100", piid |-> "P1", savings |-> "50"],
      [award_id_piid |-> "P2", amount |-> "200", piid |-> Null, savings |-> Null],
      [award_id_piid |-> Null, amount |-> Null, piid |-> "P3", savings |-> "10"]>>

\* C6: every row of L is in the output at least once, with the R-side columns
\* all missing exactly when no row of R has an equal key; symmetrically for
\* every row of R; and the example tables merge to exactly the three rows
\* (P1,100,P1,50), (P2,200,-,-), (-,-,P3,10).
C6_OuterJoinCompleteness ==
    Joined =>
        /\ \A i \in 1..Len(df_usaspending.rows) :
             /\ OutputOfLeft(i) # {}
             /\ (\E n \in OutputOfLeft(i) : ~HasRight(merged_df.rows[n]))
                <=> ~\E j \in 1..Len(df_doge.rows) :
                        EqualKeys(KeyOf(df_usaspending, usaspending_merge_key, i), KeyOf(df_doge, doge_merge_key, j))
        /\ \A j \in 1..Len(df_doge.rows) :
             /\ OutputOfRight(j) # {}
             /\ (\E n \in OutputOfRight(j) : ~HasLeft(merged_df.rows[n]))
                <=> ~\E i \in 1..Len(df_usaspending.rows) :
                        EqualKeys(KeyOf(df_usaspending, usaspending_merge_key, i), KeyOf(df_doge, doge_merge_key, j))
        /\ df_usaspending = ExampleLeft /\ df_doge = ExampleRight => merged_df.rows = ExampleMerged

\* C7: merge_data returns the empty table, without calling pd.merge and
\* without raising, whenever a key column is missing; pd.merge is called only
\* when both key columns are there.
C7_MissingKeyGivesEmptyTable ==
    calls.merge_data = 1 =>
        /\ (usaspending_merge_key \notin df_usaspending.cols \/ doge_merge_key \notin df_doge.cols)
             => /\ pc = "WRITE" /\ exception = NoException
                /\ merged_df.cols = {} /\ merged_df.rows = <<>>
                /\ calls.pd_merge = 0
        /\ calls.pd_merge = 1
             => usaspending_merge_key \in df_usaspending.cols /\ doge_merge_key \in df_doge.cols

\* The left table has its key and rows, the right table has rows but no key.
C7_Witness ==
    /\ calls.merge_data = 1
    /\ usaspending_merge_key \in df_usaspending.cols /\ Len(df_usaspending.rows) = 3
    /\ doge_merge_key \notin df_doge.cols /\ Len(df_doge.rows) = 2
    /\ merged_df = EmptyDataFrame

\* ------------------------------------------------------------------- main
\* C4: no exception leaves main, whatever stage raised it.
C4_NoExceptionLeavesMain == pc # "RAISED" /\ exception = NoException

\* The tables of the '.csv' members that parse, in archive order.
ParsedMembers(members) ==
    LET good == SelectSeq(members, LAMBDA m : m.is_csv /\ m.parse_ok)
    IN  IF good = <<>> THEN <<>> ELSE [i \in 1..Len(good) |-> good[i].df]

\* C5: fetch_usaspending_data never raises; it returns the empty list when the
\* download fails or the body is no zip archive, and otherwise the tables of
\* the '.csv' members that parse, one each, in archive order.
C5_ArchiveFetchResult ==
    archive_response # NoResponse =>
        /\ pc = "CONCAT" /\ exception = NoException
        /\ usaspending_dataframes =
             IF archive_response.download # "ok" \/ ~archive_response.zip_ok THEN <<>>
             ELSE ParsedMembers(archive_response.members)

\* A member that fails to parse, followed by one that parses and is returned.
C5_Witness ==
    /\ archive_response # NoResponse
    /\ Len(archive_response.members) = 2
    /\ archive_response.members[1].is_csv /\ ~archive_response.members[1].parse_ok
    /\ archive_response.members[2].is_csv /\ archive_response.members[2].parse_ok
    /\ Len(usaspending_dataframes) = 1
    /\ Len(usaspending_dataframes[1].rows) = 1

\* The feed request failed, or its body is no JSON, or no table.
FeedFailure == feed_response # NoResponse /\ ~(feed_response.request = "ok" /\ feed_response.json_ok /\ feed_response.tabular)

\* C8: fetch_doge_contracts never raises; on a failed request or a body that
\* is no JSON or no table it returns the table with no rows and no columns,
\* and main ends in FAIL: merge_data is not called and no file is written.
C8_FeedFailureEndsInFail ==
    /\ feed_response # NoResponse => exception = NoException
    /\ FeedFailure =>
        /\ df_doge.cols = {} /\ df_doge.rows = <<>>
        /\ pc = "FAIL" /\ FailBanner
        /\ ~ENABLED Next
        /\ calls.merge_data = 0 /\ calls.to_csv = 0 /\ files = <<>>

\* A body that is not JSON, after an archive that loaded.
C8_Witness ==
    /\ FeedFailure
    /\ feed_response.request = "ok" /\ ~feed_response.json_ok
    /\ ~empty(df_usaspending)
    /\ pc = "FAIL"

RECURSIVE RowsBefore(_, _)
RowsBefore(dfs, i) == IF i = 1 THEN 0 ELSE RowsBefore(dfs, i - 1) + Len(dfs[i - 1].rows)

\* C9: the concatenated table has r1+...+rk rows, the rows of the k tables in
\* list order, none dropped or repeated, under the row labels 0..N-1,
\* whatever the tables' column sets.
C9_ConcatKeepsEveryRow ==
    calls.pd_concat = 1 =>
        LET dfs == usaspending_dataframes
            k == Len(dfs)
            N == RowsBefore(dfs, k + 1)
        IN  /\ k >= 1
            /\ Len(df_usaspending.rows) = N
            /\ \A i \in 1..k : \A j \in 1..Len(dfs[i].rows) :
                 df_usaspending.rows[RowsBefore(dfs, i) + j] = dfs[i].rows[j]
            /\ Len(df_usaspending.index) = N
            /\ \A n \in 1..N : df_usaspending.index[n] = n - 1

\* Two one-row tables with different column sets.
C9_Witness ==
    /\ calls.pd_concat = 1
    /\ Len(usaspending_dataframes) = 2
    /\ usaspending_dataframes[1].cols # usaspending_dataframes[2].cols
    /\ Len(usaspending_dataframes[1].rows) = 1 /\ Len(usaspending_dataframes[2].rows) = 1
    /\ Len(df_usaspending.rows) = 2

\* The parts of C10 that name a stage: each request at most once, the stages
\* in order, no feed request after an empty archive list, no merge_data after
\* an empty feed table, at most one write and only of a non-empty merge.
StagesInOrder ==
    /\ calls.archive_get <= 1 /\ calls.feed_get <= 1
    /\ calls.pd_concat <= 1 /\ calls.merge_data <= 1 /\ calls.to_csv <= 1 /\ Len(files) <= 1
    /\ calls.pd_concat = 1 => calls.archive_get = 1 /\ usaspending_dataframes # <<>>
    /\ calls.feed_get = 1 => calls.pd_concat = 1
    /\ calls.merge_data = 1 => calls.feed_get = 1 /\ ~empty(df_doge)
    /\ calls.to_csv = 1 => calls.merge_data = 1 /\ pc \in {"DONE", "RAISED"} /\ ~empty(merged_df)
    /\ Len(files) = 1 => calls.to_csv = 1 /\ pc = "DONE" /\ files[1].rows = merged_df.rows

\* C10 as stated: the above, and a stage runs only if EVERY earlier stage
\* produced a non-empty result, the concatenation included.
C10_StageRunsOnlyAfterNonEmptyResults ==
    /\ StagesInOrder
    /\ calls.feed_get = 1 => ~empty(df_usaspending)
    /\ calls.merge_data = 1 => ~empty(df_usaspending)
    /\ calls.to_csv = 1 => ~empty(df_usaspending)

\* C10 as amended: the stages run in order, each request at most once; the
\* concatenation and everything after it run only after a non-empty archive
\* list, merge_data and the write only after a non-empty feed table, the
\* write at most once and only after a non-empty merge.  An empty
\* concatenated table does not stop the run.
C10_StagesInOrder == StagesInOrder

\* The file written although the concatenated table has no rows.
C10_Witness == pc = "DONE" /\ Len(files) = 1 /\ empty(df_usaspending) /\ calls.feed_get = 1

====
